---- MODULE Spec2Model ----
(***************************************************************************)
(* Model of formatAmount (src/src/helpers/formatAmount.ts, lines 293-410), *)
(* the amount formatter of mx-sdk-dapp-utils.                              *)
(*                                                                         *)
(* Strings are sequences of one-character strings, so "1.50" is            *)
(* <<"1", ".", "5", "0">>.  A BigNumber is the record [ip, fp] of its      *)
(* canonical integer digits (no leading zeros) and fraction digits (no     *)
(* trailing zeros), which is what bignumber.js keeps of a decimal literal. *)
(* One call of formatAmount is one behaviour: Init draws the props, the    *)
(* actions are the steps of the function body in source order.             *)
(***************************************************************************)
EXTENDS Integers, Sequences, FiniteSets, TLC

\* ------------------------------------------------------------------ bounds

\* Longest digit string drawn as a well-formed input.
MaxLen == 6
\* Longest string drawn over the whole alphabet (malformed inputs included).
MaxAnyLen == 3
\* Largest `decimals` drawn.
MaxDecimals == 3
\* Largest `digits` drawn.
MaxDigits == 2
\* Longest balance an output is compared with for order.
MaxOtherLen == 2
\* Longest input of a call whose result is parsed back.
MaxRoundTripLen == 3
\* How far past DECIMAL_PLACES the `decimals` of such a call go.
MaxBeyond == 1
\* Longest caller name given to providerNotInitializedError.
MaxCallerLen == 3
\* Most invocations of the function it returns.
MaxInvocations == 3
\* Most calls made one after the other.
MaxCalls == 2
\* Longest input of a call in a sequence of calls.
MaxCallLen == 2
\* Largest `decimals` and `digits` of a call in a sequence of calls.
MaxCallPlaces == 2
\* Most leading digits of an input sized for the default decimals.
MaxDefaultLen == 2

\* ------------------------------------------------------- program constants

\* ZERO of ../constants: the literal returned for an exactly-zero amount.
ZERO == <<"0">>
\* DECIMALS of ../constants: the default of `decimals`.
DECIMALS == 18
\* DIGITS of ../constants: the default of `digits`.
DIGITS == 4
\* BigNumber.ROUND_FLOOR, and the ROUNDING_MODE BigNumber starts with.
ROUND_FLOOR == "ROUND_FLOOR"
ROUND_HALF_UP == "ROUND_HALF_UP"
\* DECIMAL_PLACES of a fresh BigNumber.clone(): toString(10) rounds to it.
DECIMAL_PLACES == 20
\* The group size of bignumber.js's default FORMAT (toFormat).
GROUP_SIZE == 3

\* ----------------------------------------------------------------- strings

DigitChar == {"0", "1", "2", "3", "4", "5", "6", "7", "8", "9"}
\* The digits inputs are drawn from.
InputDigit == {"0", "9"}
\* The characters inputs are drawn from.
InputChar == InputDigit \cup {"-", ".", "a"}

\* n copies of c: Array(n).fill(c).join('')
Repeat(c, n) == [i \in 1..n |-> c]

\* s.substring(0, n)
Prefix(s, n) == SubSeq(s, 1, IF n < Len(s) THEN n ELSE Len(s))

\* s.substring(n)
Suffix(s, n) == SubSeq(s, n + 1, Len(s))

\* The digit after c, "0" after "9".
NextDigit(c) ==
  CASE c = "0" -> "1" [] c = "1" -> "2" [] c = "2" -> "3" [] c = "3" -> "4"
    [] c = "4" -> "5" [] c = "5" -> "6" [] c = "6" -> "7" [] c = "7" -> "8"
    [] c = "8" -> "9" [] OTHER -> "0"

RECURSIVE Increment(_)
\* The digit string of the integer one above that of s.
Increment(s) ==
  IF s = <<>> THEN <<"1">>
  ELSE IF s[Len(s)] = "9" THEN Increment(SubSeq(s, 1, Len(s) - 1)) \o <<"0">>
  ELSE SubSeq(s, 1, Len(s) - 1) \o <<NextDigit(s[Len(s)])>>

AllZeros(s) == \A i \in 1..Len(s) : s[i] = "0"

\* The index of the first "." of s, or 0.
DotIndex(s) ==
  IF \E i \in 1..Len(s) : s[i] = "."
  THEN CHOOSE i \in 1..Len(s) : s[i] = "." /\ \A j \in 1..(i - 1) : s[j] # "."
  ELSE 0

\* s.split('.')[0]
BeforeDot(s) == IF DotIndex(s) = 0 THEN s ELSE SubSeq(s, 1, DotIndex(s) - 1)

\* s.split('.')[1], '' when there is none
AfterDot(s) == IF DotIndex(s) = 0 THEN <<>> ELSE Suffix(s, DotIndex(s))

RECURSIVE StripLeadingZeros(_)
\* The canonical integer digits: leading zeros dropped, "0" for zero.
StripLeadingZeros(s) ==
  IF Len(s) <= 1 THEN (IF Len(s) = 0 THEN <<"0">> ELSE s)
  ELSE IF s[1] = "0" THEN StripLeadingZeros(Tail(s)) ELSE s

RECURSIVE StripTrailingZeros(_)
\* decimalPart.replace(/0+$/, '')
StripTrailingZeros(s) ==
  IF Len(s) = 0 THEN s
  ELSE IF s[Len(s)] = "0" THEN StripTrailingZeros(SubSeq(s, 1, Len(s) - 1)) ELSE s

\* --------------------------------------------------------------- validator

IsDigitString(s) == Len(s) >= 1 /\ \A i \in 1..Len(s) : s[i] \in DigitChar

\* stringIsInteger(input, positiveNumbersOnly): the integer-literal grammar,
\* an optional leading '-' (when negatives are allowed), then digits.
stringIsInteger(s, positiveNumbersOnly) ==
  \/ IsDigitString(s)
  \/ /\ ~positiveNumbersOnly
     /\ Len(s) >= 2
     /\ s[1] = "-"
     /\ IsDigitString(Tail(s))

\* --------------------------------------------------------------- BigNumber

\* new BigNumber(str) of an unsigned decimal literal.
LocalBigNumber(str) ==
  [ip |-> StripLeadingZeros(BeforeDot(str)),
   fp |-> StripTrailingZeros(AfterDot(str))]

\* bn.isZero()
BnIsZero(bn) == bn.ip = <<"0">> /\ bn.fp = <<>>

\* LocalBigNumber(input).isNegative(): the sign of the literal; -0 is negative.
BnIsNegative(str) == Len(str) >= 1 /\ str[1] = "-"

\* bn.toFixed(dp) under ROUND_FLOOR: a non-negative value is cut to dp
\* fraction digits and padded with zeros up to dp.
BnToFixed(bn, dp) ==
  IF dp = 0 THEN bn.ip
  ELSE bn.ip \o <<".">> \o Prefix(bn.fp, dp) \o Repeat("0", dp - Len(Prefix(bn.fp, dp)))

\* bn.toFixed(): normal notation, nothing rounded, nothing padded.
BnToFixedAll(bn) == IF bn.fp = <<>> THEN bn.ip ELSE bn.ip \o <<".">> \o bn.fp

\* bn.toString(10): with a base given the value is first rounded to
\* DECIMAL_PLACES under the rounding mode (ROUND_FLOOR), then written out.
BnToString10(bn) ==
  BnToFixedAll([ip |-> bn.ip, fp |-> StripTrailingZeros(Prefix(bn.fp, DECIMAL_PLACES))])

RECURSIVE GroupThousands(_)
\* The integer digits split into groups of GROUP_SIZE from the right.
GroupThousands(s) ==
  IF Len(s) <= GROUP_SIZE THEN s
  ELSE GroupThousands(SubSeq(s, 1, Len(s) - GROUP_SIZE))
         \o <<",">> \o Suffix(s, Len(s) - GROUP_SIZE)

RECURSIVE GroupFromLeft(_)
\* The digits split into groups of GROUP_SIZE counted from the left.
GroupFromLeft(s) ==
  IF Len(s) <= GROUP_SIZE THEN s
  ELSE Prefix(s, GROUP_SIZE) \o <<",">> \o GroupFromLeft(Suffix(s, GROUP_SIZE))

\* Mutant: the groups of three are counted from the left, '1234' as '123,4'.
GroupFixedFromLeft(str) ==
  IF DotIndex(str) = 0 THEN GroupFromLeft(str)
  ELSE GroupFromLeft(BeforeDot(str)) \o <<".">> \o AfterDot(str)

\* The integer part of a fixed-notation string grouped, the rest kept.
GroupFixed(str) ==
  IF DotIndex(str) = 0 THEN GroupThousands(str)
  ELSE GroupThousands(BeforeDot(str)) \o <<".">> \o AfterDot(str)

\* bn.toFormat(dp)
BnToFormat(bn, dp) == GroupFixed(BnToFixed(bn, dp))

\* bn.toFormat()
BnToFormatAll(bn) == GroupFixed(BnToFixedAll(bn))

\* ------------------------------------------------------------ formatAmount

\* modInput: the input without its sign.
ModInput(input) == IF BnIsNegative(input) THEN Suffix(input, 1) ELSE input

\* fungibleFromBigInteger('', modInput, decimals).amountAsBigInteger
\*   .shiftedBy(-decimals).toFixed(decimals)
\* The decimal point moves `decimals` places to the left, exactly.
DecimalAmount(modInput, decimals) ==
  LET c == StripLeadingZeros(modInput)
      padded == Repeat("0", decimals + 1 - Len(c)) \o c
      cut == Len(padded) - decimals
  IN  IF decimals = 0 THEN c
      ELSE Prefix(padded, cut) \o <<".">> \o Suffix(padded, cut)

\* balance = bnBalance.toString(10)
Balance(decimalAmount) == BnToString10(LocalBigNumber(decimalAmount))

IntegerPart(decimalAmount) == BeforeDot(Balance(decimalAmount))

DecimalPart(decimalAmount) == AfterDot(Balance(decimalAmount))

\* bnBalance.isZero()
IsZeroAmount(decimalAmount) == BnIsZero(LocalBigNumber(decimalAmount))

\* !decimalPart || bNdecimalPart.isZero()
IsWholeNumber(decimalAmount) ==
  DecimalPart(decimalAmount) = <<>> \/ AllZeros(DecimalPart(decimalAmount))

\* Mutant: the window is not required to have a digit, digits >= 1 is missing.
ShownDecimalsAreZeroAnyDigits(decimalAmount, digits) ==
  /\ digits <= Len(DecimalPart(decimalAmount))
  /\ AllZeros(Prefix(DecimalPart(decimalAmount), digits))

\* shownDecimalsAreZero
ShownDecimalsAreZero(decimalAmount, digits) ==
  /\ digits >= 1
  /\ digits <= Len(DecimalPart(decimalAmount))
  /\ AllZeros(Prefix(DecimalPart(decimalAmount), digits))

\* Mutant: the sign is left off a display whose digits are all zero.
WithSignUnlessZero(isNegative, s) ==
  IF isNegative /\ \E i \in 1..Len(s) : s[i] \in (DigitChar \ {"0"})
  THEN <<"-">> \o s
  ELSE s

\* isNegative ? `-${s}` : s
WithSign(isNegative, s) == IF isNegative THEN <<"-">> \o s ELSE s

\* Mutant: a whole number is given a zero decimal, as the pipe-based variant
\* padded whole numbers.
WholeResultPadded(isNegative, addCommas, integerPart) ==
  WithSign(isNegative,
           (IF addCommas THEN BnToFormatAll(LocalBigNumber(integerPart))
            ELSE integerPart)
             \o <<".", "0">>)

\* The whole-number return.
WholeResult(isNegative, addCommas, integerPart) ==
  WithSign(isNegative,
           IF addCommas THEN BnToFormatAll(LocalBigNumber(integerPart))
           ELSE integerPart)

\* trimmedDecimal padded with zeros up to digits, or whole when longer.
FinalDecimal(decimalPart, digits) ==
  LET trimmedDecimal == StripTrailingZeros(decimalPart)
  IN  IF Len(trimmedDecimal) >= digits THEN trimmedDecimal
      ELSE trimmedDecimal \o Repeat("0", digits - Len(trimmedDecimal))

\* Case "X.00000...": a non-zero integer with insignificant decimals.
IntegerWithZeros(p, integerPart) ==
  LET zeros == Repeat("0", p.digits)
  IN  IF p.addCommas
      THEN BnToFormat(LocalBigNumber(integerPart \o <<".">> \o zeros), p.digits)
      ELSE integerPart \o <<".">> \o zeros

\* Case: very small amount with the less-than label, `<0.${minAmount}`.
LessThanMinAmount(p) ==
  <<"<", "0", ".">> \o Repeat("0", p.digits - 1) \o <<"1">>

\* Case: showLastNonZeroDecimal=false, zeros up to exactly digits places.
ZeroWithZeros(p) ==
  LET zeros == Repeat("0", p.digits)
  IN  IF p.addCommas
      THEN BnToFormat(LocalBigNumber(<<"0", ".">> \o zeros), p.digits)
      ELSE <<"0", ".">> \o zeros

\* Case: showLastNonZeroDecimal=true, max(all non-zero decimals, digits).
ZeroWithFraction(p, decimalPart) ==
  LET finalDecimal == FinalDecimal(decimalPart, p.digits)
  IN  IF p.addCommas
      THEN BnToFormatAll(LocalBigNumber(<<"0", ".">> \o finalDecimal))
      ELSE <<"0", ".">> \o finalDecimal

\* Mutant: the integer is returned without its zero decimals.
SubPrecisionBalanceNoZeros(p, integerPart, decimalPart) ==
  IF ~BnIsZero(LocalBigNumber(integerPart))
  THEN (IF p.addCommas THEN BnToFormatAll(LocalBigNumber(integerPart)) ELSE integerPart)
  ELSE IF p.showIsLessThanDecimalsLabel THEN LessThanMinAmount(p)
  ELSE IF ~p.showLastNonZeroDecimal THEN ZeroWithZeros(p)
  ELSE ZeroWithFraction(p, decimalPart)

\* Mutant: showLastNonZeroDecimal is looked at before the label.
SubPrecisionBalanceLabelLast(p, integerPart, decimalPart) ==
  IF ~BnIsZero(LocalBigNumber(integerPart)) THEN IntegerWithZeros(p, integerPart)
  ELSE IF ~p.showLastNonZeroDecimal THEN ZeroWithZeros(p)
  ELSE IF p.showIsLessThanDecimalsLabel THEN LessThanMinAmount(p)
  ELSE ZeroWithFraction(p, decimalPart)

\* Mutant: with showLastNonZeroDecimal=false only the numeric part is
\* returned, as `return numericPart` of the pipe-based variant did.
SubPrecisionBalanceNumericPart(p, integerPart, decimalPart) ==
  IF ~BnIsZero(LocalBigNumber(integerPart)) THEN IntegerWithZeros(p, integerPart)
  ELSE IF p.showIsLessThanDecimalsLabel THEN LessThanMinAmount(p)
  ELSE IF ~p.showLastNonZeroDecimal THEN integerPart
  ELSE ZeroWithFraction(p, decimalPart)

\* Mutant: showLastNonZeroDecimal is not looked at, a small amount is cut to
\* its zeros whatever the flag.
SubPrecisionBalanceCutAtDigits(p, integerPart, decimalPart) ==
  IF ~BnIsZero(LocalBigNumber(integerPart)) THEN IntegerWithZeros(p, integerPart)
  ELSE IF p.showIsLessThanDecimalsLabel THEN LessThanMinAmount(p)
  ELSE ZeroWithZeros(p)

\* formattedBalance when shownDecimalsAreZero.
SubPrecisionBalance(p, integerPart, decimalPart) ==
  IF ~BnIsZero(LocalBigNumber(integerPart)) THEN IntegerWithZeros(p, integerPart)
  ELSE IF p.showIsLessThanDecimalsLabel THEN LessThanMinAmount(p)
  ELSE IF ~p.showLastNonZeroDecimal THEN ZeroWithZeros(p)
  ELSE ZeroWithFraction(p, decimalPart)

\* Normal case, showLastNonZeroDecimal=true: precision with minimum width.
FullFraction(p, integerPart, decimalPart) ==
  LET finalDecimal == FinalDecimal(decimalPart, p.digits)
  IN  IF p.addCommas
      THEN BnToFormatAll(LocalBigNumber(integerPart \o <<".">> \o finalDecimal))
      ELSE integerPart \o <<".">> \o finalDecimal

\* Normal case, showLastNonZeroDecimal=false: pad or trim to exactly digits.
FixedFraction(p, integerPart, decimalPart) ==
  LET cut == Prefix(decimalPart, p.digits)
      processedDecimal == cut \o Repeat("0", p.digits - Len(cut))
  IN  IF p.addCommas
      THEN BnToFormat(LocalBigNumber(integerPart \o <<".">> \o processedDecimal),
                      p.digits)
      ELSE integerPart \o <<".">> \o processedDecimal

\* Mutant: showLastNonZeroDecimal=false trims the trailing zeros instead of
\* padding, as the FormatAmountProps variant did.
NormalBalanceTrimmed(p, integerPart, decimalPart) ==
  IF p.showLastNonZeroDecimal THEN FullFraction(p, integerPart, decimalPart)
  ELSE LET trimmedDecimal == StripTrailingZeros(decimalPart)
       IN  IF p.addCommas
           THEN BnToFormatAll(LocalBigNumber(integerPart \o <<".">> \o trimmedDecimal))
           ELSE integerPart \o <<".">> \o trimmedDecimal

\* Mutant: the last digit kept is rounded up when digits are dropped.
NormalBalanceRoundUp(p, integerPart, decimalPart) ==
  IF p.showLastNonZeroDecimal THEN FullFraction(p, integerPart, decimalPart)
  ELSE LET cut == Prefix(decimalPart, p.digits)
           dropped == Suffix(decimalPart, Len(cut))
           up == IF Len(cut) >= 1 /\ cut[Len(cut)] = "0" /\ ~AllZeros(dropped)
                 THEN SubSeq(cut, 1, Len(cut) - 1) \o <<"1">>
                 ELSE cut
       IN  FixedFraction(p, integerPart, up)

\* Mutant: the fraction is cut at digits whatever showLastNonZeroDecimal is.
NormalBalanceAlwaysFixed(p, integerPart, decimalPart) ==
  FixedFraction(p, integerPart, decimalPart)

\* Mutant: with showLastNonZeroDecimal=true only the significant decimals are
\* shown, none padded, as an earlier variant did.
NormalBalanceSignificantOnly(p, integerPart, decimalPart) ==
  IF p.showLastNonZeroDecimal
  THEN FullFraction([p EXCEPT !.digits = 0], integerPart, decimalPart)
  ELSE FixedFraction(p, integerPart, decimalPart)

\* Mutant: cutting the whole fraction rounds half up into the integer part.
NormalBalanceCarry(p, integerPart, decimalPart) ==
  IF p.showLastNonZeroDecimal THEN FullFraction(p, integerPart, decimalPart)
  ELSE IF p.digits = 0 /\ decimalPart[1] \in {"5", "6", "7", "8", "9"}
  THEN FixedFraction(p, Increment(integerPart), decimalPart)
  ELSE FixedFraction(p, integerPart, decimalPart)

\* Mutant: with showLastNonZeroDecimal=true the fraction is padded to
\* `decimals` places, not to `digits`.
NormalBalancePadToDecimals(p, integerPart, decimalPart) ==
  IF p.showLastNonZeroDecimal
  THEN FullFraction([p EXCEPT !.digits = p.decimals], integerPart, decimalPart)
  ELSE FixedFraction(p, integerPart, decimalPart)

\* Mutant: the last `digits` decimals are kept, not the first.
NormalBalanceLastDigits(p, integerPart, decimalPart) ==
  IF p.showLastNonZeroDecimal THEN FullFraction(p, integerPart, decimalPart)
  ELSE FixedFraction(p, integerPart,
                     Suffix(decimalPart,
                            IF Len(decimalPart) > p.digits
                            THEN Len(decimalPart) - p.digits ELSE 0))

\* formattedBalance in the normal case.
NormalBalance(p, integerPart, decimalPart) ==
  IF p.showLastNonZeroDecimal THEN FullFraction(p, integerPart, decimalPart)
  ELSE FixedFraction(p, integerPart, decimalPart)

\* What formatAmount returns once the amount is shifted.
FormatShifted(p, isNegative, decimalAmount) ==
  IF IsZeroAmount(decimalAmount) THEN ZERO
  ELSE IF IsWholeNumber(decimalAmount)
  THEN WholeResult(isNegative, p.addCommas, IntegerPart(decimalAmount))
  ELSE IF ShownDecimalsAreZero(decimalAmount, p.digits)
  THEN WithSign(isNegative,
         SubPrecisionBalance(p, IntegerPart(decimalAmount), DecimalPart(decimalAmount)))
  ELSE WithSign(isNegative,
         NormalBalance(p, IntegerPart(decimalAmount), DecimalPart(decimalAmount)))

\* formatAmount(p) for an input that passes the validator.
formatAmount(p) ==
  FormatShifted(p, BnIsNegative(p.input),
                DecimalAmount(ModInput(p.input), p.decimals))

\* ------------------------------------- formatAmount, the pipe-based variant

\* decimalPlaces = pipe(0).if(..).then(..) ... .valueOf()
PipeDecimalPlaces(p, decimalPart) ==
  IF decimalPart = <<>> THEN 0
  ELSE IF p.showLastNonZeroDecimal
  THEN (IF Len(decimalPart) >= p.digits THEN Len(decimalPart) ELSE p.digits)
  ELSE (IF Len(decimalPart) <= p.digits THEN Len(decimalPart) ELSE p.digits)

\* pipe(balance).if(addCommas).then(formatted): what the two branches get
PipeCurrent(p, decimalAmount) ==
  IF p.addCommas
  THEN BnToFormat(LocalBigNumber(decimalAmount),
                  PipeDecimalPlaces(p, DecimalPart(decimalAmount)))
  ELSE Balance(decimalAmount)

\* .if(Boolean(shownDecimalsAreZero)).then(...)
PipeSubPrecisionBalance(p, current, integerPart) ==
  LET numericPart == BeforeDot(current)
      decimalSide == AfterDot(current)
      zeros == Repeat("0", p.digits)
      minAmount == Repeat("0", p.digits - 1) \o <<"1">>
  IN  IF ~BnIsZero(LocalBigNumber(integerPart))
      THEN numericPart \o <<".">> \o zeros
      ELSE IF p.showIsLessThanDecimalsLabel
      THEN <<"<">> \o numericPart \o <<".">> \o minAmount
      ELSE IF ~p.showLastNonZeroDecimal THEN numericPart
      ELSE numericPart \o <<".">> \o decimalSide

\* .if(Boolean(!shownDecimalsAreZero && decimalPart)).then(...)
PipeNormalBalance(p, current, decimalPart) ==
  LET numericPart == BeforeDot(current)
      decimalSide == Prefix(decimalPart, PipeDecimalPlaces(p, decimalPart))
      noOfZerosAtEnd == p.digits - Len(decimalSide)
  IN  IF p.showLastNonZeroDecimal
      THEN IF noOfZerosAtEnd > 0
           THEN numericPart \o <<".">> \o decimalSide \o Repeat("0", noOfZerosAtEnd)
           ELSE numericPart \o <<".">> \o Prefix(decimalSide, p.digits)
      ELSE IF decimalSide = <<>> THEN numericPart
      ELSE numericPart \o <<".">> \o decimalSide

\* formattedBalance
PipeFormattedBalance(p, decimalAmount) ==
  LET current == PipeCurrent(p, decimalAmount)
  IN  IF ShownDecimalsAreZero(decimalAmount, p.digits)
      THEN PipeSubPrecisionBalance(p, current, IntegerPart(decimalAmount))
      ELSE IF DecimalPart(decimalAmount) # <<>>
      THEN PipeNormalBalance(p, current, DecimalPart(decimalAmount))
      ELSE current

\* Mutant: nothing is pushed onto parts, a whole number stays as it is.
PipeJoinPartsUnpadded(p, formattedBalance) == formattedBalance

\* parts = formattedBalance.split('.'); a non-zero balance without decimals
\* gets ZERO.repeat(digits) pushed when digits > 0; parts.join('.')
PipeJoinParts(p, formattedBalance) ==
  LET hasNoDecimals == DotIndex(formattedBalance) = 0
      isNotZero == formattedBalance # ZERO
  IN  IF p.digits > 0 /\ hasNoDecimals /\ isNotZero
      THEN formattedBalance \o <<".">> \o Repeat("0", p.digits)
      ELSE formattedBalance

\* The second .then of the pipe, for a balance that is not zero.
PipeFormat(p, decimalAmount) ==
  PipeJoinParts(p, PipeFormattedBalance(p, decimalAmount))

\* ------------------------------ formatAmount, the FormatAmountProps variant

\* `0.${trimmedDecimal}` and `${integerPart}.${trimmedDecimal}`: the decimals
\* at their natural length, trailing zeros trimmed.
PropsTrimmedFraction(p, integerPart, decimalPart) ==
  LET trimmedDecimal == StripTrailingZeros(decimalPart)
  IN  IF p.addCommas
      THEN BnToFormatAll(LocalBigNumber(integerPart \o <<".">> \o trimmedDecimal))
      ELSE integerPart \o <<".">> \o trimmedDecimal

\* formattedBalance when shownDecimalsAreZero.
PropsSubPrecisionBalance(p, integerPart, decimalPart) ==
  IF ~BnIsZero(LocalBigNumber(integerPart)) THEN IntegerWithZeros(p, integerPart)
  ELSE IF p.showIsLessThanDecimalsLabel THEN LessThanMinAmount(p)
  ELSE IF ~p.showLastNonZeroDecimal
  THEN PropsTrimmedFraction(p, <<"0">>, decimalPart)
  ELSE <<"0", ".">> \o Repeat("0", p.digits)

\* Mutant: the flag is read as the latest variant reads it, true for the
\* whole fraction and false for exactly `digits` places.
PropsNormalBalanceAsLatest(p, integerPart, decimalPart) ==
  NormalBalance(p, integerPart, decimalPart)

\* formattedBalance in the normal case: showLastNonZeroDecimal pads or trims
\* to exactly `digits` places, without it the natural decimal length.
PropsNormalBalance(p, integerPart, decimalPart) ==
  IF p.showLastNonZeroDecimal THEN FixedFraction(p, integerPart, decimalPart)
  ELSE PropsTrimmedFraction(p, integerPart, decimalPart)

\* parseAmount(amount, numDecimals):
\* TokenTransfer.fungibleFromAmount('', amount, numDecimals).toString(), that
\* is new BigNumber(amount).shiftedBy(numDecimals).decimalPlaces(0) written
\* out. The point moves numDecimals places to the right; what is left after
\* it is rounded away under the shared BigNumber's rounding mode.
parseAmount(amount, numDecimals, roundingMode) ==
  LET negative == Len(amount) >= 1 /\ amount[1] = "-"
      body == IF negative THEN Tail(amount) ELSE amount
      fraction == AfterDot(body)
      kept == BeforeDot(body) \o Prefix(fraction, numDecimals)
                \o Repeat("0", numDecimals - Len(fraction))
      dropped == Suffix(fraction, numDecimals)
      up == CASE roundingMode = ROUND_FLOOR -> negative /\ ~AllZeros(dropped)
              [] roundingMode = "ROUND_UP" -> ~AllZeros(dropped)
              [] OTHER -> dropped # <<>> /\ dropped[1] \in {"5", "6", "7", "8", "9"}
      magnitude == StripLeadingZeros(IF up THEN Increment(kept) ELSE kept)
  IN  IF negative /\ ~AllZeros(magnitude) THEN <<"-">> \o magnitude
      ELSE magnitude

\* ------------------------------------------------------------------- state

VARIABLES
  props,          \* the argument of the call
  pc,             \* where the call is
  isNegative,     \* const isNegative
  modInput,       \* const modInput
  decimalAmount,  \* const decimalAmount
  result,         \* the returned string, <<>> while none
  error,          \* the message of the thrown Error, "" while none
  given,          \* the object the caller passed, options possibly left out
  calls,          \* how many calls have begun
  globalRoundingMode,  \* ROUNDING_MODE of the BigNumber constructor all share
  localRoundingMode,   \* ROUNDING_MODE of LocalBigNumber, "none" before the clone
  parsed,         \* what parseAmount returned for the result, <<>> while none
  caller,         \* the argument of providerNotInitializedError
  handler,        \* the function it returned, as the caller it closes over
  thrown          \* the message of the Error the handler threw, "" while none

\* The state of providerNotInitializedError and of what it returns.
provider == <<caller, handler, thrown>>

vars == <<props, pc, isNegative, modInput, decimalAmount, result, error,
          given, calls, globalRoundingMode, localRoundingMode, parsed,
          provider>>

RECURSIVE StringsOver(_, _)
\* All strings of length n over the characters of S.
StringsOver(S, n) ==
  IF n = 0 THEN {<<>>}
  ELSE {<<c>> \o t : c \in S, t \in StringsOver(S, n - 1)}

DigitStrings == UNION {StringsOver(InputDigit, n) : n \in 1..MaxLen}

Inputs ==
  DigitStrings
    \cup {<<"-">> \o s : s \in DigitStrings}
    \cup UNION {StringsOver(InputChar, n) : n \in 0..MaxAnyLen}

Props ==
  [input : Inputs,
   decimals : 0..MaxDecimals,
   digits : 0..MaxDigits,
   addCommas : BOOLEAN,
   showIsLessThanDecimalsLabel : BOOLEAN,
   showLastNonZeroDecimal : BOOLEAN]

\* The options a caller may leave out.
OptionNames ==
  {"decimals", "digits", "addCommas", "showIsLessThanDecimalsLabel",
   "showLastNonZeroDecimal"}

\* The object passed by a caller who gives the options of p except those of
\* omitted, which are left out (their fields here are blank: 0 and FALSE).
Passed(p, omitted) ==
  [input |-> p.input,
   decimals |-> IF "decimals" \in omitted THEN 0 ELSE p.decimals,
   digits |-> IF "digits" \in omitted THEN 0 ELSE p.digits,
   addCommas |-> IF "addCommas" \in omitted THEN FALSE ELSE p.addCommas,
   showIsLessThanDecimalsLabel |->
     IF "showIsLessThanDecimalsLabel" \in omitted THEN FALSE
     ELSE p.showIsLessThanDecimalsLabel,
   showLastNonZeroDecimal |->
     IF "showLastNonZeroDecimal" \in omitted THEN FALSE
     ELSE p.showLastNonZeroDecimal,
   omitted |-> omitted]

\* Mutant: showLastNonZeroDecimal defaults to false, as in the variants
\* before this one.
DestructureShowLastFalse(g) ==
  [input |-> g.input,
   decimals |-> IF "decimals" \in g.omitted THEN DECIMALS ELSE g.decimals,
   digits |-> IF "digits" \in g.omitted THEN DIGITS ELSE g.digits,
   addCommas |-> IF "addCommas" \in g.omitted THEN FALSE ELSE g.addCommas,
   showIsLessThanDecimalsLabel |->
     IF "showIsLessThanDecimalsLabel" \in g.omitted THEN FALSE
     ELSE g.showIsLessThanDecimalsLabel,
   showLastNonZeroDecimal |->
     IF "showLastNonZeroDecimal" \in g.omitted THEN FALSE
     ELSE g.showLastNonZeroDecimal]

\* The parameter destructuring with its defaults:
\* decimals = DECIMALS, digits = DIGITS, addCommas = false,
\* showIsLessThanDecimalsLabel = false, showLastNonZeroDecimal = true.
Destructure(g) ==
  [input |-> g.input,
   decimals |-> IF "decimals" \in g.omitted THEN DECIMALS ELSE g.decimals,
   digits |-> IF "digits" \in g.omitted THEN DIGITS ELSE g.digits,
   addCommas |-> IF "addCommas" \in g.omitted THEN FALSE ELSE g.addCommas,
   showIsLessThanDecimalsLabel |->
     IF "showIsLessThanDecimalsLabel" \in g.omitted THEN FALSE
     ELSE g.showIsLessThanDecimalsLabel,
   showLastNonZeroDecimal |->
     IF "showLastNonZeroDecimal" \in g.omitted THEN TRUE
     ELSE g.showLastNonZeroDecimal]

\* The ROUNDING_MODE values the shared BigNumber may have been given.
RoundingModes == {"ROUND_UP", ROUND_HALF_UP, ROUND_FLOOR}

\* A call with every option given.
Init ==
  /\ props \in Props
  /\ given = Passed(props, {})
  /\ calls = 1
  /\ globalRoundingMode = ROUND_HALF_UP
  /\ localRoundingMode = "none"
  /\ pc = "start"
  /\ isNegative = FALSE
  /\ modInput = <<>>
  /\ decimalAmount = <<>>
  /\ result = <<>>
  /\ error = ""
  /\ parsed = <<>>
  /\ caller = ""
  /\ handler = <<>>
  /\ thrown = ""

\* Inputs with digits around the point when decimals is DECIMALS: a few
\* leading digits, then no zeros, DECIMALS - DIGITS zeros or DECIMALS - 1.
DefaultDigitStrings ==
  {s \o Repeat("0", k) :
     s \in UNION {StringsOver(InputDigit, n) : n \in 1..MaxDefaultLen},
     k \in {0, DECIMALS - DIGITS, DECIMALS - 1}}

DefaultInputs ==
  DefaultDigitStrings
    \cup {<<"-">> \o s : s \in DefaultDigitStrings}
    \cup {<<"a">>}

\* The objects passed with any of the options left out.
DefaultsGiven ==
  {Passed(p, o) :
     p \in [input : DefaultInputs,
            decimals : 0..MaxDecimals,
            digits : 0..MaxDigits,
            addCommas : BOOLEAN,
            showIsLessThanDecimalsLabel : BOOLEAN,
            showLastNonZeroDecimal : BOOLEAN],
     o \in SUBSET OptionNames}

\* A call with options left out.
InitDefaults ==
  /\ given \in DefaultsGiven
  /\ props = Destructure(given)
  /\ calls = 1
  /\ globalRoundingMode = ROUND_HALF_UP
  /\ localRoundingMode = "none"
  /\ pc = "start"
  /\ isNegative = FALSE
  /\ modInput = <<>>
  /\ decimalAmount = <<>>
  /\ result = <<>>
  /\ error = ""
  /\ parsed = <<>>
  /\ caller = ""
  /\ handler = <<>>
  /\ thrown = ""

CallDigitStrings == UNION {StringsOver(InputDigit, n) : n \in 1..MaxCallLen}

CallInputs ==
  CallDigitStrings \cup {<<"-">> \o s : s \in CallDigitStrings} \cup {<<"a">>}

\* The objects passed in a sequence of calls: decimals and digits given, the
\* flags left out.
CallGiven ==
  {Passed(p, {"addCommas", "showIsLessThanDecimalsLabel",
              "showLastNonZeroDecimal"}) :
     p \in [input : CallInputs,
            decimals : 0..MaxCallPlaces,
            digits : 0..MaxCallPlaces,
            addCommas : {FALSE},
            showIsLessThanDecimalsLabel : {FALSE},
            showLastNonZeroDecimal : {FALSE}]}

\* The first call of a sequence, the shared BigNumber configured anyhow.
InitCalls ==
  /\ given \in CallGiven
  /\ props = Destructure(given)
  /\ calls = 1
  /\ globalRoundingMode \in RoundingModes
  /\ localRoundingMode = "none"
  /\ pc = "start"
  /\ isNegative = FALSE
  /\ modInput = <<>>
  /\ decimalAmount = <<>>
  /\ result = <<>>
  /\ error = ""
  /\ parsed = <<>>
  /\ caller = ""
  /\ handler = <<>>
  /\ thrown = ""

\* if (!stringIsInteger(input, false)) throw new Error('Invalid input')
ThrowInvalidInput ==
  /\ pc = "start"
  /\ ~stringIsInteger(props.input, FALSE)
  /\ error' = "Invalid input"
  /\ pc' = "thrown"
  /\ UNCHANGED <<props, isNegative, modInput, decimalAmount, result,
               given, calls, globalRoundingMode, localRoundingMode,
               parsed, provider>>

\* Mutant: the input is not validated.
StripSignUnchecked ==
  /\ pc = "start"
  /\ isNegative' = BnIsNegative(props.input)
  /\ modInput' = ModInput(props.input)
  /\ localRoundingMode' = ROUND_FLOOR
  /\ pc' = "signed"
  /\ UNCHANGED <<props, decimalAmount, result, error,
               given, calls, globalRoundingMode, parsed, provider>>

\* Mutant: the rounding mode is set on the shared BigNumber, not on a clone.
StripSignConfigGlobal ==
  /\ pc = "start"
  /\ stringIsInteger(props.input, FALSE)
  /\ globalRoundingMode' = ROUND_FLOOR
  /\ isNegative' = BnIsNegative(props.input)
  /\ modInput' = ModInput(props.input)
  /\ pc' = "signed"
  /\ UNCHANGED <<props, decimalAmount, result, error,
               given, calls, localRoundingMode, parsed, provider>>

\* LocalBigNumber cloned and set to ROUND_FLOOR; isNegative and modInput of
\* a valid input
StripSign ==
  /\ pc = "start"
  /\ stringIsInteger(props.input, FALSE)
  /\ isNegative' = BnIsNegative(props.input)
  /\ modInput' = ModInput(props.input)
  /\ localRoundingMode' = ROUND_FLOOR
  /\ pc' = "signed"
  /\ UNCHANGED <<props, decimalAmount, result, error,
               given, calls, globalRoundingMode, parsed, provider>>

\* decimalAmount = ...shiftedBy(-decimals).toFixed(decimals)
ShiftDecimals ==
  /\ pc = "signed"
  /\ decimalAmount' = DecimalAmount(modInput, props.decimals)
  /\ pc' = "shifted"
  /\ UNCHANGED <<props, isNegative, modInput, result, error,
               given, calls, globalRoundingMode, localRoundingMode,
               parsed, provider>>

\* Mutant: the sign is reapplied to a zero amount.
ReturnZeroSigned ==
  /\ pc = "shifted"
  /\ IsZeroAmount(decimalAmount)
  /\ result' = WithSign(isNegative, ZERO)
  /\ pc' = "done"
  /\ UNCHANGED <<props, isNegative, modInput, decimalAmount, error,
               given, calls, globalRoundingMode, localRoundingMode,
               parsed, provider>>

\* if (bnBalance.isZero()) return ZERO
ReturnZero ==
  /\ pc = "shifted"
  /\ IsZeroAmount(decimalAmount)
  /\ result' = ZERO
  /\ pc' = "done"
  /\ UNCHANGED <<props, isNegative, modInput, decimalAmount, error,
               given, calls, globalRoundingMode, localRoundingMode,
               parsed, provider>>

\* the whole-number return
ReturnWhole ==
  /\ pc = "shifted"
  /\ ~IsZeroAmount(decimalAmount)
  /\ IsWholeNumber(decimalAmount)
  /\ result' = WholeResult(isNegative, props.addCommas, IntegerPart(decimalAmount))
  /\ pc' = "done"
  /\ UNCHANGED <<props, isNegative, modInput, decimalAmount, error,
               given, calls, globalRoundingMode, localRoundingMode,
               parsed, provider>>

\* Mutant: the sign is put on the number inside the label, '<-0.01'.
ReturnSubPrecisionSignInside ==
  /\ pc = "shifted"
  /\ ~IsZeroAmount(decimalAmount)
  /\ ~IsWholeNumber(decimalAmount)
  /\ ShownDecimalsAreZero(decimalAmount, props.digits)
  /\ result' =
       LET b == SubPrecisionBalance(props, IntegerPart(decimalAmount),
                                    DecimalPart(decimalAmount))
       IN  IF b[1] = "<" THEN <<"<">> \o WithSign(isNegative, Tail(b))
           ELSE WithSign(isNegative, b)
  /\ pc' = "done"
  /\ UNCHANGED <<props, isNegative, modInput, decimalAmount, error,
               given, calls, globalRoundingMode, localRoundingMode,
               parsed, provider>>

\* the shownDecimalsAreZero branch and the final return
ReturnSubPrecision ==
  /\ pc = "shifted"
  /\ ~IsZeroAmount(decimalAmount)
  /\ ~IsWholeNumber(decimalAmount)
  /\ ShownDecimalsAreZero(decimalAmount, props.digits)
  /\ result' = WithSign(isNegative,
                 SubPrecisionBalance(props, IntegerPart(decimalAmount),
                                     DecimalPart(decimalAmount)))
  /\ pc' = "done"
  /\ UNCHANGED <<props, isNegative, modInput, decimalAmount, error,
               given, calls, globalRoundingMode, localRoundingMode,
               parsed, provider>>

\* the normal branch and the final return
ReturnNormal ==
  /\ pc = "shifted"
  /\ ~IsZeroAmount(decimalAmount)
  /\ ~IsWholeNumber(decimalAmount)
  /\ ~ShownDecimalsAreZero(decimalAmount, props.digits)
  /\ result' = WithSign(isNegative,
                 NormalBalance(props, IntegerPart(decimalAmount),
                               DecimalPart(decimalAmount)))
  /\ pc' = "done"
  /\ UNCHANGED <<props, isNegative, modInput, decimalAmount, error,
               given, calls, globalRoundingMode, localRoundingMode,
               parsed, provider>>

Next ==
  \/ ThrowInvalidInput
  \/ StripSign
  \/ ShiftDecimals
  \/ ReturnZero
  \/ ReturnWhole
  \/ ReturnSubPrecision
  \/ ReturnNormal

Spec == Init /\ [][Next]_vars

\* One call with options left out.
SpecDefaults == InitDefaults /\ [][Next]_vars

RoundTripDigitStrings ==
  UNION {StringsOver(InputDigit, n) : n \in 1..MaxRoundTripLen}

\* The calls whose result is parsed back: no commas and no label, decimals
\* small or around BigNumber's DECIMAL_PLACES.
RoundTripProps ==
  [input : RoundTripDigitStrings
             \cup {<<"-">> \o s : s \in RoundTripDigitStrings}
             \cup {<<"a">>},
   decimals : (0..MaxDecimals) \cup (DECIMAL_PLACES..(DECIMAL_PLACES + MaxBeyond)),
   digits : 0..MaxDigits,
   addCommas : {FALSE},
   showIsLessThanDecimalsLabel : {FALSE},
   showLastNonZeroDecimal : BOOLEAN]

InitRoundTrip ==
  /\ props \in RoundTripProps
  /\ given = Passed(props, {})
  /\ calls = 1
  /\ globalRoundingMode = ROUND_HALF_UP
  /\ localRoundingMode = "none"
  /\ pc = "start"
  /\ isNegative = FALSE
  /\ modInput = <<>>
  /\ decimalAmount = <<>>
  /\ result = <<>>
  /\ error = ""
  /\ parsed = <<>>
  /\ caller = ""
  /\ handler = <<>>
  /\ thrown = ""

\* parseAmount(formatAmount({...}), decimals)
ParseBack ==
  /\ pc = "done"
  /\ parsed' = parseAmount(result, props.decimals, globalRoundingMode)
  /\ pc' = "parsed"
  /\ UNCHANGED <<props, isNegative, modInput, decimalAmount, result, error,
               given, calls, globalRoundingMode, localRoundingMode, provider>>

NextRoundTrip ==
  \/ Next
  \/ ParseBack

\* A call and its result parsed back.
SpecRoundTrip == InitRoundTrip /\ [][NextRoundTrip]_vars

\* The pipe-based variant: validation, sign and shift as above, then the
\* second .then of the pipe and the sign put back on whatever it returned.

\* if (bnBalance.isZero()) return ZERO
PipeFormatZero ==
  /\ pc = "shifted"
  /\ IsZeroAmount(decimalAmount)
  /\ result' = ZERO
  /\ pc' = "formatted"
  /\ UNCHANGED <<props, isNegative, modInput, decimalAmount, error,
               given, calls, globalRoundingMode, localRoundingMode,
               parsed, provider>>

\* return parts.join('.')
PipeFormatBalance ==
  /\ pc = "shifted"
  /\ ~IsZeroAmount(decimalAmount)
  /\ result' = PipeFormat(props, decimalAmount)
  /\ pc' = "formatted"
  /\ UNCHANGED <<props, isNegative, modInput, decimalAmount, error,
               given, calls, globalRoundingMode, localRoundingMode,
               parsed, provider>>

\* .if(isNegative).then((current) => `-${current}`).valueOf()
PipeSign ==
  /\ pc = "formatted"
  /\ result' = WithSign(isNegative, result)
  /\ pc' = "done"
  /\ UNCHANGED <<props, isNegative, modInput, decimalAmount, error,
               given, calls, globalRoundingMode, localRoundingMode,
               parsed, provider>>

NextPipe ==
  \/ ThrowInvalidInput
  \/ StripSign
  \/ ShiftDecimals
  \/ PipeFormatZero
  \/ PipeFormatBalance
  \/ PipeSign

SpecPipe == Init /\ [][NextPipe]_vars

\* The FormatAmountProps variant: validation, sign, shift and the zero and
\* whole-number returns as above, then its own two branches.

\* the shownDecimalsAreZero branch and the final return
ReturnPropsSubPrecision ==
  /\ pc = "shifted"
  /\ ~IsZeroAmount(decimalAmount)
  /\ ~IsWholeNumber(decimalAmount)
  /\ ShownDecimalsAreZero(decimalAmount, props.digits)
  /\ result' = WithSign(isNegative,
                 PropsSubPrecisionBalance(props, IntegerPart(decimalAmount),
                                          DecimalPart(decimalAmount)))
  /\ pc' = "done"
  /\ UNCHANGED <<props, isNegative, modInput, decimalAmount, error,
               given, calls, globalRoundingMode, localRoundingMode,
               parsed, provider>>

\* the normal branch and the final return
ReturnPropsNormal ==
  /\ pc = "shifted"
  /\ ~IsZeroAmount(decimalAmount)
  /\ ~IsWholeNumber(decimalAmount)
  /\ ~ShownDecimalsAreZero(decimalAmount, props.digits)
  /\ result' = WithSign(isNegative,
                 PropsNormalBalance(props, IntegerPart(decimalAmount),
                                    DecimalPart(decimalAmount)))
  /\ pc' = "done"
  /\ UNCHANGED <<props, isNegative, modInput, decimalAmount, error,
               given, calls, globalRoundingMode, localRoundingMode,
               parsed, provider>>

NextProps ==
  \/ ThrowInvalidInput
  \/ StripSign
  \/ ShiftDecimals
  \/ ReturnZero
  \/ ReturnWhole
  \/ ReturnPropsSubPrecision
  \/ ReturnPropsNormal

SpecProps == Init /\ [][NextProps]_vars

\* ------------------------------------------- providerNotInitializedError

RECURSIVE CallerNames(_)
\* The caller names of length n.
CallerNames(n) ==
  IF n = 0 THEN {""}
  ELSE {c \o t : c \in {"a", "b"}, t \in CallerNames(n - 1)}

\* `Unable to perform ${caller}, Provider not initialized`
NotInitializedMessage(c) ==
  "Unable to perform " \o c \o ", Provider not initialized"

\* No call of formatAmount is under way.
NoProps ==
  [input |-> <<>>, decimals |-> 0, digits |-> 0, addCommas |-> FALSE,
   showIsLessThanDecimalsLabel |-> FALSE, showLastNonZeroDecimal |-> FALSE]

\* Before providerNotInitializedError(caller) is evaluated.
InitProvider ==
  /\ caller \in UNION {CallerNames(n) : n \in 0..MaxCallerLen}
  /\ handler = <<>>
  /\ thrown = ""
  /\ pc = "idle"
  /\ calls = 0
  /\ props = NoProps
  /\ given = Passed(NoProps, {})
  /\ globalRoundingMode = ROUND_HALF_UP
  /\ localRoundingMode = "none"
  /\ isNegative = FALSE
  /\ modInput = <<>>
  /\ decimalAmount = <<>>
  /\ result = <<>>
  /\ error = ""
  /\ parsed = <<>>

\* Mutant: the inner arrow is missing, the Error is thrown at once.
MakeHandlerThrows ==
  /\ pc = "idle"
  /\ thrown' = NotInitializedMessage(caller)
  /\ pc' = "threw"
  /\ UNCHANGED <<props, isNegative, modInput, decimalAmount, result, error,
               given, calls, globalRoundingMode, localRoundingMode, parsed,
               caller, handler>>

\* providerNotInitializedError(caller): returns () => { throw ... }
MakeHandler ==
  /\ pc = "idle"
  /\ handler' = <<caller>>
  /\ pc' = "made"
  /\ UNCHANGED <<props, isNegative, modInput, decimalAmount, result, error,
               given, calls, globalRoundingMode, localRoundingMode, parsed,
               caller, thrown>>

\* The returned function is invoked: throw new Error(...)
InvokeHandler ==
  /\ pc = "made"
  /\ calls < MaxInvocations
  /\ thrown' = NotInitializedMessage(handler[1])
  /\ calls' = calls + 1
  /\ pc' = "threw"
  /\ UNCHANGED <<props, isNegative, modInput, decimalAmount, result, error,
               given, globalRoundingMode, localRoundingMode, parsed,
               caller, handler>>

\* Whoever invoked it catches the Error; the function is still there.
CatchError ==
  /\ pc = "threw"
  /\ thrown' = ""
  /\ pc' = "made"
  /\ UNCHANGED <<props, isNegative, modInput, decimalAmount, result, error,
               given, calls, globalRoundingMode, localRoundingMode, parsed,
               caller, handler>>

NextProvider ==
  \/ MakeHandler
  \/ InvokeHandler
  \/ CatchError

SpecProvider == InitProvider /\ [][NextProvider]_vars

\* The caller calls again once a call has returned or thrown: the locals of
\* the call before are gone, the shared BigNumber is the same object.
NextCall ==
  /\ pc \in {"done", "thrown"}
  /\ calls < MaxCalls
  /\ given' \in CallGiven
  /\ props' = Destructure(given')
  /\ calls' = calls + 1
  /\ localRoundingMode' = "none"
  /\ pc' = "start"
  /\ isNegative' = FALSE
  /\ modInput' = <<>>
  /\ decimalAmount' = <<>>
  /\ result' = <<>>
  /\ error' = ""
  /\ UNCHANGED <<globalRoundingMode, parsed, provider>>

NextCalls ==
  \/ Next
  \/ NextCall

\* Calls one after the other.
SpecCalls == InitCalls /\ [][NextCalls]_vars

\* ---------------------------------------------------- the amount, in itself

\* What the claims measure the output against: the amount |input| / 10^decimals
\* read off the input's digits, and the parts of the returned string.

DigitSeq == <<"0", "1", "2", "3", "4", "5", "6", "7", "8", "9">>

DigitValue(c) == (CHOOSE i \in 1..Len(DigitSeq) : DigitSeq[i] = c) - 1

Max(a, b) == IF a >= b THEN a ELSE b

PadLeft(s, n) == Repeat("0", n - Len(s)) \o s

PadRight(s, n) == s \o Repeat("0", n - Len(s))

\* The digits of the input without its sign.
Magnitude(input) == IF input[1] = "-" THEN Tail(input) ELSE input

InputIsNegative == props.input[1] = "-"

\* The `decimals` fraction digits of the amount, trailing zeros included.
TrueFraction ==
  LET m == PadLeft(Magnitude(props.input), props.decimals)
  IN  SubSeq(m, Len(m) - props.decimals + 1, Len(m))

\* The integer digits of the amount, canonical.
TrueInteger ==
  LET m == PadLeft(Magnitude(props.input), props.decimals)
  IN  StripLeadingZeros(SubSeq(m, 1, Len(m) - props.decimals))

TrimmedFraction == StripTrailingZeros(TrueFraction)

HasFraction == ~AllZeros(TrueFraction)

IsZeroValue == AllZeros(Magnitude(props.input))

\* A sub-precision amount: a non-zero fraction of at least `digits` digits
\* whose first `digits` digits are all zero, digits >= 1.
SubPrecision ==
  /\ props.digits >= 1
  /\ HasFraction
  /\ Len(TrimmedFraction) >= props.digits
  /\ AllZeros(SubSeq(TrueFraction, 1, props.digits))

\* 0 < |input| / 10^decimals < 10^-digits
BelowPrecision ==
  /\ TrueInteger = <<"0">>
  /\ HasFraction
  /\ AllZeros(Prefix(PadRight(TrueFraction, props.digits), props.digits))

\* s with thousands separators: counted from the right, every fourth
\* character is a comma.
Grouped(s) ==
  LET n == Len(s)
      total == n + ((n - 1) \div 3)
  IN  [i \in 1..total |->
         LET r == total - i + 1
         IN  IF r % 4 = 0 THEN "," ELSE s[n - (r - (r \div 4)) + 1]]

\* The integer part as the options ask for it.
ShownInteger == IF props.addCommas THEN Grouped(TrueInteger) ELSE TrueInteger

Signed(s) == IF InputIsNegative THEN <<"-">> \o s ELSE s

Zeros(n) == [i \in 1..n |-> "0"]

\* '<0.' followed by digits-1 zeros and a final '1'
LessThanLabel(n) == <<"<", "0", ".">> \o Zeros(n - 1) \o <<"1">>

HasLabel(s) == \E i \in 1..Len(s) : s[i] = "<"

\* The digits after the decimal point of a returned string.
OutFraction(s) == AfterDot(s)

\* The integer digits of a returned string: sign, label and commas removed.
OutInteger(s) ==
  StripLeadingZeros(SelectSeq(BeforeDot(s), LAMBDA c : c \in DigitChar))

\* a <= b for digit strings of one length
LexLeq(a, b) ==
  \/ a = b
  \/ \E k \in 1..Len(a) :
       /\ \A j \in 1..(k - 1) : a[j] = b[j]
       /\ DigitValue(a[k]) < DigitValue(b[k])

\* i1.f1 <= i2.f2 as decimal numbers
ValueLeq(i1, f1, i2, f2) ==
  LET li == Max(Len(i1), Len(i2))
      lf == Max(Len(f1), Len(f2))
  IN  LexLeq(PadLeft(i1, li) \o PadRight(f1, lf), PadLeft(i2, li) \o PadRight(f2, lf))

Done == pc = "done"

\* ------------------------------------------------------------------ claims

\* C1: an input that does not match the integer-literal grammar makes
\* formatAmount throw an Error with the message 'Invalid input', before any
\* shifting or formatting step, and no string is returned.
C1_InvalidInputThrows ==
  ~(\/ IsDigitString(props.input)
    \/ (Len(props.input) >= 2 /\ props.input[1] = "-" /\ IsDigitString(Tail(props.input))))
  => /\ pc \in {"start", "thrown"}
     /\ pc = "start" => ENABLED ThrowInvalidInput
     /\ pc = "thrown" => error = "Invalid input"
     /\ result = <<>>
     /\ decimalAmount = <<>>
     /\ modInput = <<>>

C1_Witness ==
  /\ pc = "thrown"
  /\ props.input = <<"9", ".", "9">>
  /\ error = "Invalid input"

C3_PaddedFullFraction ==
  (Done /\ props.showLastNonZeroDecimal /\ HasFraction /\ ~SubPrecision)
  => OutFraction(result) = PadRight(TrimmedFraction, props.digits)

\* C4: a non-zero whole number is returned as its integer part alone,
\* grouped when addCommas is set, with '-' in front of a negative input.
C4_WholeNumberIsIntegerOnly ==
  (Done /\ ~HasFraction /\ ~IsZeroValue) => result = Signed(ShownInteger)

C4_Witness ==
  /\ Done
  /\ ~HasFraction
  /\ InputIsNegative
  /\ props.addCommas
  /\ props.decimals = 2
  /\ props.digits = 2
  /\ result = <<"-", "9", ",", "0", "0", "0">>

\* C5: the inputs '0' and '-0' are returned as exactly '0', whatever the
\* options: no sign, no decimals.
C5_ZeroIsZero ==
  props.input \in {<<"0">>, <<"-", "0">>}
  => /\ pc # "thrown"
     /\ Done => result = <<"0">>

C5_Witness ==
  /\ Done
  /\ props.input = <<"-", "0">>
  /\ props.digits = 2
  /\ result = <<"0">>

\* C6: for a non-zero magnitude m, formatAmount of '-' + m is '-' followed
\* by formatAmount of m under the same options.
C6_SignInvariant ==
  (Done /\ InputIsNegative /\ ~IsZeroValue)
  => result = <<"-">> \o formatAmount([props EXCEPT !.input = Tail(props.input)])

C6_Witness ==
  /\ Done
  /\ InputIsNegative
  /\ props.showIsLessThanDecimalsLabel
  /\ result = <<"-", "<", "0", ".", "0", "1">>

\* C7: when no '<' label is produced, the amount the output denotes is at
\* most the true amount |input| / 10^decimals: nothing is rounded up.
C7_NeverAboveTrueAmount ==
  (Done /\ ~HasLabel(result))
  => ValueLeq(OutInteger(result), OutFraction(result), TrueInteger, TrueFraction)

C7_Witness ==
  /\ Done
  /\ ~HasLabel(result)
  /\ TrueInteger = <<"9">>
  /\ TrueFraction = <<"9", "9">>
  /\ result = <<"9", ".", "9">>

RemoveCommas(s) == SelectSeq(s, LAMBDA c : c # ",")

\* a is a prefix of b
IsPrefix(a, b) == Len(a) <= Len(b) /\ SubSeq(b, 1, Len(a)) = a

\* The text before the decimal point of a returned string, without the sign
\* and the '<' of the label.
OutIntegerText(s) == SelectSeq(BeforeDot(s), LAMBDA c : c \notin {"-", "<"})

\* g is digits in groups of three counted from the right: every fourth
\* character from the right is a comma, no other is, and none leads.
IsGroupedInteger(g) ==
  /\ Len(g) >= 1
  /\ g[1] # ","
  /\ \A i \in 1..Len(g) : (g[i] = ",") <=> ((Len(g) - i + 1) % 4 = 0)

HasComma(s) == \E i \in 1..Len(s) : s[i] = ","

\* The returned string denotes exactly |input| / 10^decimals.
DenotesTrueAmount(s) ==
  /\ OutInteger(s) = TrueInteger
  /\ StripTrailingZeros(OutFraction(s)) = TrimmedFraction

C12_CommasOnlyInInteger ==
  (Done /\ props.addCommas)
  => RemoveCommas(result) = formatAmount([props EXCEPT !.addCommas = FALSE])

\* C13: with addCommas = true the integer part of the output is in groups of
\* three digits counted from the right (the leftmost of one to three), with
\* no comma after the decimal point; with addCommas = false there is no comma.
C13_ThousandsGroups ==
  Done =>
    IF props.addCommas
    THEN /\ IsGroupedInteger(OutIntegerText(result))
         /\ ~HasComma(OutFraction(result))
    ELSE ~HasComma(result)

C13_Witness ==
  /\ Done
  /\ props.addCommas
  /\ ~props.showLastNonZeroDecimal
  /\ props.digits = 1
  /\ result = <<"9", "9", ",", "0", "0", "9", ".", "9">>

C16_EveryDigitStringPassesThrough ==
  (Done /\ props.decimals = 0 /\ ~props.addCommas /\ ~InputIsNegative)
  => result = props.input

\* C16, amended: with decimals = 0 and addCommas = false every digit string
\* without superfluous leading zeros is returned as it is, with no decimal
\* point, for every digits and showLastNonZeroDecimal.
C16_CanonicalIntegerPassesThrough ==
  (/\ Done
   /\ props.decimals = 0
   /\ ~props.addCommas
   /\ ~InputIsNegative
   /\ (Len(props.input) = 1 \/ props.input[1] # "0"))
  => result = props.input

C16_Witness ==
  /\ Done
  /\ props.decimals = 0
  /\ ~props.addCommas
  /\ props.digits = 2
  /\ props.input = <<"9", "0", "0", "9">>
  /\ result = <<"9", "0", "0", "9">>

\* C17 as stated: with showLastNonZeroDecimal = false the output for digits
\* is a prefix of the output for digits + 1, the other options fixed.
C17_PrefixOfNextDigits ==
  (Done /\ ~props.showLastNonZeroDecimal)
  => IsPrefix(result, formatAmount([props EXCEPT !.digits = @ + 1]))

\* C17, amended: with showLastNonZeroDecimal = false and
\* showIsLessThanDecimalsLabel = false the output for digits is a prefix of
\* the output for digits + 1, the other options fixed.
C17_PrefixOfNextDigitsNoLabel ==
  (Done /\ ~props.showLastNonZeroDecimal /\ ~props.showIsLessThanDecimalsLabel)
  => IsPrefix(result, formatAmount([props EXCEPT !.digits = @ + 1]))

C17_Witness ==
  /\ Done
  /\ ~props.showLastNonZeroDecimal
  /\ ~props.showIsLessThanDecimalsLabel
  /\ props.digits = 1
  /\ result = <<"9", ".", "0">>
  /\ formatAmount([props EXCEPT !.digits = 2]) = <<"9", ".", "0", "9">>

\* The call passed the validator.
ValidInput == stringIsInteger(props.input, FALSE)

\* The label is about to be built: Array(digits - 1) is evaluated.
BuildsMinAmount ==
  /\ pc = "shifted"
  /\ ~IsZeroAmount(decimalAmount)
  /\ ~IsWholeNumber(decimalAmount)
  /\ ShownDecimalsAreZero(decimalAmount, props.digits)
  /\ BnIsZero(LocalBigNumber(IntegerPart(decimalAmount)))
  /\ props.showIsLessThanDecimalsLabel

\* C18: for an input of the grammar and any options formatAmount returns a
\* non-empty string: it never throws, no array of negative length is asked
\* for on the way, and the only throw is 'Invalid input', for an input
\* outside the grammar. (The guards of the four returns cover every shifted
\* amount by their form, and every step before them is unguarded.)
C18_Totality ==
  /\ ValidInput => (pc # "thrown" /\ error = "")
  /\ pc \in {"start", "signed", "shifted", "done", "thrown"}
  /\ Done => (ValidInput /\ Len(result) >= 1)
  /\ BuildsMinAmount => props.digits - 1 >= 0
  /\ pc = "thrown" => (~ValidInput /\ error = "Invalid input")

C18_Witness ==
  /\ Done
  /\ props.digits = 1
  /\ props.showIsLessThanDecimalsLabel
  /\ props.input = <<"-", "0", "0", "9">>
  /\ props.decimals = 3
  /\ result = <<"-", "<", "0", ".", "1">>

\* The caller left digits and the three flags to their defaults.
DefaultOptions ==
  {"digits", "addCommas", "showIsLessThanDecimalsLabel",
   "showLastNonZeroDecimal"} \subseteq given.omitted

C19_NoLeakAcrossCalls ==
  [][/\ globalRoundingMode' = globalRoundingMode
     /\ pc \notin {"done", "thrown"} => given' = given
     /\ pc' = "done" => result' = formatAmount(Destructure(given'))]_vars

C19_Witness ==
  /\ Done
  /\ calls = 2
  /\ globalRoundingMode = ROUND_HALF_UP
  /\ localRoundingMode = ROUND_FLOOR
  /\ given.input = <<"9">>
  /\ given.decimals = 2
  /\ given.digits = 1
  /\ result = <<"0", ".", "0", "9">>

\* The object with the defaults of the options table written out in place
\* of what the caller left out.
ExplicitDefaults(g) ==
  [input |-> g.input,
   decimals |-> IF "decimals" \in g.omitted THEN 18 ELSE g.decimals,
   digits |-> IF "digits" \in g.omitted THEN 4 ELSE g.digits,
   addCommas |-> IF "addCommas" \in g.omitted THEN FALSE ELSE g.addCommas,
   showIsLessThanDecimalsLabel |->
     IF "showIsLessThanDecimalsLabel" \in g.omitted THEN FALSE
     ELSE g.showIsLessThanDecimalsLabel,
   showLastNonZeroDecimal |->
     IF "showLastNonZeroDecimal" \in g.omitted THEN TRUE
     ELSE g.showLastNonZeroDecimal]

\* C20: a call with options left out returns what the call with decimals 18,
\* digits 4, addCommas false, showIsLessThanDecimalsLabel false and
\* showLastNonZeroDecimal true in their place returns.
C20_OmittedIsDefault ==
  Done => result = formatAmount(ExplicitDefaults(given))

C20_Witness ==
  /\ Done
  /\ given.omitted = OptionNames
  /\ given.input = <<"9", "9">> \o Zeros(17)
  /\ result = <<"9", ".", "9", "0", "0", "0">>

IsDigits(s) == \A i \in 1..Len(s) : s[i] \in DigitChar

\* s without a leading c
Without(c, s) == IF Len(s) >= 1 /\ s[1] = c THEN Tail(s) ELSE s

\* s is: optional '-', optional '<', an integer part of digits (grouped by
\* commas only when addCommas), then nothing or '.' and at least one digit.
WellFormed(s, addCommas) ==
  LET body == Without("<", Without("-", s))
      int == BeforeDot(body)
  IN  /\ Len(int) >= 1
      /\ IF addCommas
         THEN IsGroupedInteger(int) /\ IsDigits(RemoveCommas(int))
         ELSE IsDigits(int)
      /\ DotIndex(body) # 0 =>
           (Len(AfterDot(body)) >= 1 /\ IsDigits(AfterDot(body)))

\* C23: every returned string is well formed: optional '-', optional '<',
\* an integer part, then nothing or '.' and at least one digit; it never
\* ends with '.'.
C23_WellFormedOutput ==
  Done => WellFormed(result, props.addCommas)

\* Every digit of s is 0.
ShowsZero(s) == \A i \in 1..Len(s) : s[i] \in DigitChar => s[i] = "0"

\* C24 as stated: a returned string whose digits are all 0 does not start
\* with '-'.
C24_NoNegativeZero ==
  (Done /\ ShowsZero(result)) => result[1] # "-"

\* C24, amended: the returned string starts with '-' exactly when the input
\* is negative and its amount is not zero, also when the digits shown are
\* all 0; a zero amount, '-0' included, is returned as '0'.
C24_SignOfNonZeroKept ==
  Done =>
    /\ (result[1] = "-") <=> (InputIsNegative /\ ~IsZeroValue)
    /\ IsZeroValue => result = <<"0">>

C24_Witness ==
  /\ Done
  /\ ~IsZeroValue
  /\ ~props.showLastNonZeroDecimal
  /\ ~props.showIsLessThanDecimalsLabel
  /\ result = <<"-", "0", ".", "0", "0">>

\* C25: the digits before the '.' of the output, '-', '<' and ',' removed,
\* are the integer part of |input| / 10^decimals, whatever the branch.
C25_IntegerPartKept ==
  Done => OutInteger(result) = TrueInteger

C25_Witness ==
  /\ Done
  /\ ~props.showLastNonZeroDecimal
  /\ props.addCommas
  /\ props.digits = 0
  /\ TrueFraction = <<"9">>
  /\ result = <<"9", "9", ",", "9", "9", "9">>

\* C27: the input with a zero appended and decimals one larger gives the
\* same output, the other options fixed.
C27_ScaleInvariant ==
  Done =>
    result = formatAmount([props EXCEPT !.input = @ \o <<"0">>,
                                        !.decimals = @ + 1])

C27_Witness ==
  /\ Done
  /\ props.input = <<"9", "0", "9">>
  /\ props.decimals = 2
  /\ props.digits = 2
  /\ props.showLastNonZeroDecimal
  /\ result = <<"9", ".", "0", "9">>
  /\ formatAmount([props EXCEPT !.input = <<"9", "0", "9", "0">>,
                                !.decimals = 3]) = result

IntegerLeq(a, b) == ValueLeq(StripLeadingZeros(a), <<>>, StripLeadingZeros(b), <<>>)

\* The value shown by r1 is at most the value shown by r2.
ShownLeq(r1, r2) ==
  ValueLeq(OutInteger(r1), OutFraction(r1), OutInteger(r2), OutFraction(r2))

\* The balances the input is compared with: the short ones and the next one.
OtherInputs ==
  UNION {StringsOver(InputDigit, n) : n \in 1..MaxOtherLen}
    \cup {Increment(props.input)}

\* C29: without the label, of two non-negative inputs formatted with the
\* same options the smaller never shows a larger value than the bigger.
C29_OrderPreserved ==
  (Done /\ ~InputIsNegative /\ ~props.showIsLessThanDecimalsLabel) =>
    \A b \in OtherInputs :
      LET other == formatAmount([props EXCEPT !.input = b])
      IN  /\ IntegerLeq(props.input, b) => ShownLeq(result, other)
          /\ IntegerLeq(b, props.input) => ShownLeq(other, result)

C29_Witness ==
  /\ Done
  /\ ~props.showLastNonZeroDecimal
  /\ ~props.showIsLessThanDecimalsLabel
  /\ props.input = <<"9", "0", "9">>
  /\ props.decimals = 2
  /\ props.digits = 1
  /\ result = <<"9", ".", "0">>
  /\ formatAmount([props EXCEPT !.input = <<"9", "1", "0">>]) = <<"9", ".", "1">>
  /\ formatAmount([props EXCEPT !.input = <<"9", "0", "0">>]) = <<"9">>

\* The input is a digit string without superfluous leading zeros.
CanonicalInput ==
  /\ ~InputIsNegative
  /\ IsDigits(props.input)
  /\ (Len(props.input) = 1 \/ props.input[1] # "0")

\* C26: for a canonical non-negative input, digits = 0 and
\* showLastNonZeroDecimal = true, parseAmount of the output with the same
\* decimals is the input again.
C26_RoundTrip ==
  (/\ pc = "parsed"
   /\ CanonicalInput
   /\ props.digits = 0
   /\ props.showLastNonZeroDecimal)
  => parsed = props.input

\* The same for decimals up to DECIMAL_PLACES only.
RoundTripWithinDecimalPlaces ==
  (/\ pc = "parsed"
   /\ CanonicalInput
   /\ props.digits = 0
   /\ props.showLastNonZeroDecimal
   /\ props.decimals <= DECIMAL_PLACES)
  => parsed = props.input

\* C30: providerNotInitializedError(caller) returns a function and throws
\* nothing; every invocation of that function throws the Error 'Unable to
\* perform <caller>, Provider not initialized' and returns no value.
C30_HandlerAlwaysThrows ==
  [][/\ pc = "idle" =>
          (pc' = "made" /\ handler' = <<caller>> /\ thrown' = "")
     /\ calls' # calls =>
          /\ pc' = "threw"
          /\ thrown' = "Unable to perform " \o caller \o ", Provider not initialized"
          /\ result' = <<>>]_vars

C30_Witness ==
  /\ pc = "threw"
  /\ calls = 2
  /\ caller = "ab"
  /\ thrown = "Unable to perform ab, Provider not initialized"
  /\ result = <<>>

\* C21: in the pipe-based variant a non-zero whole number with digits > 0 is
\* returned as its integer part, a decimal point and exactly `digits` zeros,
\* and an amount that is exactly zero is returned as '0' with no decimals.
C21_WholeNumberPadded ==
  /\ (Done /\ ~HasFraction /\ ~IsZeroValue /\ props.digits > 0)
       => result = Signed(ShownInteger \o <<".">> \o Zeros(props.digits))
  /\ (Done /\ IsZeroValue) => result = <<"0">>

\* The padding of non-zero whole numbers alone, and a zero amount without
\* decimals whatever sign comes with it.
PipeWholeNumberPadded ==
  /\ (Done /\ ~HasFraction /\ ~IsZeroValue /\ props.digits > 0)
       => result = Signed(ShownInteger \o <<".">> \o Zeros(props.digits))
  /\ (Done /\ IsZeroValue) => result = Signed(<<"0">>)

PipeWholeNumberPadded_Witness ==
  /\ Done
  /\ props.input = <<"-", "9", "0", "0", "0", "0", "0">>
  /\ props.decimals = 2
  /\ props.digits = 2
  /\ props.addCommas
  /\ result = <<"-", "9", ",", "0", "0", "0", ".", "0", "0">>

====
